---- MODULE Spec2Model ----
(***************************************************************************)
(* Model of unified_transcribe.py: the ingestion pipeline main() and the   *)
(* helpers it calls (ledger, naming policy, size gate).                    *)
(*                                                                         *)
(* File names are sequences of character codes.  A multi-letter word is    *)
(* one element, coded by the code point of its first letter, so that the   *)
(* element-wise lexicographic order is the order sorted() gives the names. *)
(***************************************************************************)
EXTENDS Integers, Sequences, FiniteSets, TLC

\* ---------------------------------------------------------------- bounds
MaxRuns == 2
MaxFaults == 1

\* ------------------------------------------------------ character codes
SP == 32
DOT == 46
COLON == 58
W_COMPRESSED == 99
W_LICAO == 108
W_M4A == 109
W_VID == 118
W_WAV == 119
STAMP == 20

Digit(i) == 48 + i

\* AUDIO_EXTS, restricted to the extensions the modelled names use
AUDIO_EXTS == {W_M4A, W_WAV}

\* the word "licao" is spelled with non-ASCII letters (c-cedilla, a-tilde)
NonAscii(name) == \E i \in 1..Len(name) : name[i] = W_LICAO

\* ---------------------------------------------------------------- sizes
MAX_UPLOAD_BYTES_DEFAULT == 25 * 1024 * 1024
\* modification times are kept as calendar years; datetime.MAXYEAR is 9999
MAXYEAR == 9999
GoodMtime == 2023
BadMtime == 12000

Contents == 1..2
\* content 1 is exactly at the limit, content 2 is over it; downloads and
\* the transcoder's output are small
SizeOf(c) ==
  IF c = 1 THEN MAX_UPLOAD_BYTES_DEFAULT
  ELSE IF c = 2 THEN 40 * 1024 * 1024
  ELSE 64 * 1024

\* content of the file ffmpeg writes from content c, complete or cut short
Transcoded(c) == 100 + c
PartialTranscode(c) == 200 + c

None == [c |-> 0, mt |-> 0]

\* ----------------------------------------------------------- path helpers
Stem(name) == SubSeq(name, 1, Len(name) - 2)
Suffix(name) == name[Len(name)]
WithSuffixCompressed(name) == Stem(name) \o <<DOT, W_COMPRESSED, DOT, W_M4A>>

RECURSIVE LexLess(_, _)
LexLess(a, b) ==
  IF b = <<>> THEN FALSE
  ELSE IF a = <<>> THEN TRUE
  ELSE IF Head(a) # Head(b) THEN Head(a) < Head(b)
  ELSE LexLess(Tail(a), Tail(b))

RECURSIVE SortedSeq(_)
SortedSeq(S) ==
  IF S = {} THEN <<>>
  ELSE LET m == CHOOSE x \in S : \A y \in S \ {x} : LexLess(x, y)
       IN <<m>> \o SortedSeq(S \ {m})

\* iter_audio_files: sorted directory listing; the is_file/suffix filter is
\* applied lazily when the loop asks for the next element (see NextCandidate)
Listing(dir) == SortedSeq(DOMAIN dir)

RECURSIVE DropGone(_, _)
DropGone(q, dir) ==
  IF q = <<>> THEN <<>>
  ELSE IF Head(q) \in DOMAIN dir /\ Suffix(Head(q)) \in AUDIO_EXTS THEN q
  ELSE DropGone(Tail(q), dir)

\* safe_stem: bad characters become spaces, then " ".join(out.split())
BadChars == {COLON}
ReplaceBad(s) == [i \in 1..Len(s) |-> IF s[i] \in BadChars THEN SP ELSE s[i]]

RECURSIVE Collapse(_, _)
Collapse(s, atStart) ==
  IF s = <<>> THEN <<>>
  ELSE IF Head(s) = SP
       THEN IF atStart \/ Tail(s) = <<>> \/ Head(Tail(s)) = SP
            THEN Collapse(Tail(s), atStart)
            ELSE <<SP>> \o Collapse(Tail(s), FALSE)
       ELSE <<Head(s)>> \o Collapse(Tail(s), FALSE)

RECURSIVE StripTrailing(_)
StripTrailing(s) ==
  IF s # <<>> /\ s[Len(s)] = SP THEN StripTrailing(SubSeq(s, 1, Len(s) - 1)) ELSE s

safe_stem(s) == StripTrailing(Collapse(ReplaceBad(s), TRUE))

\* date_stamp_for_filename: datetime.fromtimestamp raises beyond MAXYEAR
StampOk(f) == f.mt <= MAXYEAR

BaseName(name) == <<STAMP, SP>> \o safe_stem(Stem(name))

\* make_unique_txt_path; a transcript name is kept without its ".txt"
RECURSIVE Probe(_, _, _)
Probe(existing, base, i) ==
  IF (base \o <<SP, Digit(i)>>) \notin existing THEN base \o <<SP, Digit(i)>>
  ELSE Probe(existing, base, i + 1)

make_unique_txt_path_overwrite(existing, base) == base

make_unique_txt_path(existing, base) ==
  IF base \notin existing THEN base ELSE Probe(existing, base, 2)

\* --------------------------------------------------------------- ledger
\* json.dumps(record) + "\n" is RecordBytes bytes of JSON and one newline:
\* byte 1 the opening brace and sha256, bytes 2 and 3 the two bytes of the
\* first non-ASCII letter of the file name (plain letters for an ASCII
\* name), byte 4 the rest up to the closing brace.  A ledger is the sequence
\* of writes made to it: n bytes of the record, then the newline if nl.
RecordBytes == 4

Fragment(h, path, name, n, nl) ==
  [sha |-> h, txt |-> path, uni |-> NonAscii(name), n |-> n, nl |-> nl]

\* read_text(encoding="utf-8"): a lead byte without its trail byte raises
Decodable(led) == \A i \in 1..Len(led) : ~(led[i].uni /\ led[i].n = 2)

\* splitlines(): the lines, each the sequence of writes that make it up
RECURSIVE SplitLines(_, _)
SplitLines(led, cur) ==
  IF led = <<>> THEN (IF cur = <<>> THEN <<>> ELSE <<cur>>)
  ELSE IF Head(led).nl THEN <<cur \o <<Head(led)>>>> \o SplitLines(Tail(led), <<>>)
  ELSE SplitLines(Tail(led), cur \o <<Head(led)>>)

\* json.loads(line) succeeds on exactly one complete record
JsonOk(line) == Len(line) = 1 /\ line[1].n = RecordBytes

RECURSIVE DoneOf(_)
DoneOf(lines) ==
  IF lines = <<>> THEN {}
  ELSE (IF JsonOk(Head(lines)) THEN {Head(lines)[1].sha} ELSE {}) \cup DoneOf(Tail(lines))

load_done_hashes(led) == DoneOf(SplitLines(led, <<>>))


\* ------------------------------------------------------------ directories
Put(dir, n, f) == [x \in (DOMAIN dir) \cup {n} |-> IF x = n THEN f ELSE dir[x]]
Del(dir, n) == [x \in (DOMAIN dir) \ {n} |-> dir[x]]
EmptyDir == [x \in {} |-> None]

\* names a user may have put in the inbox
N_LICAO_2_M4A == <<W_LICAO, SP, Digit(2), DOT, W_M4A>>
N_LICAO_M4A == <<W_LICAO, DOT, W_M4A>>
UserNames == {N_LICAO_2_M4A, N_LICAO_M4A}
UserFiles == [c : Contents, mt : {GoodMtime, BadMtime}]

\* the lines of video_urls.txt
Urls == {1}

\* outtmpl "%(title).200s [%(id)s].%(ext)s" after FFmpegExtractAudio/m4a
DownloadName(u) == <<W_VID, SP, Digit(u), DOT, W_M4A>>
DownloadFile(u) == [c |-> 10 + u, mt |-> GoodMtime]

\* ------------------------------------------------------------------ state
VARIABLES
  inbox,          \* files directly in <inbox>/ : name -> [c, mt]
  archive,        \* files in <inbox>/Archive/
  transcripts,    \* files in <inbox>/Transcripts/ : name -> [sha, full]
  ledger,         \* transcribed_index.jsonl, as the sequence of writes
  errlog,         \* transcribe_errors.log, one entry per line
  dlArchive,      \* youtube_downloaded_archive.txt
  env,            \* MOVE_AUDIO_TO_ARCHIVE, MOVE_SKIPPED_TO_ARCHIVE, video_urls.txt
  fatal,          \* the uncaught exception that ended the last run, if any
  start,          \* the directories as the current run found them
  pc,             \* position of main()
  urlq,           \* urls still to be fetched by ydl.download
  queue,          \* rest of the sorted directory listing
  audio,          \* loop variable
  file_hash, txt_path, working_audio, created_temp,
  done_hashes, ok, skipped, failed,
  status,         \* exit status of the last run
  runs, faults,
  calls,          \* transcription calls made in this run
  yielded,        \* candidates iter_audio_files has handed to the loop in this run
  counted         \* items (name and hash) counted in ok by this or an earlier run

vars == <<inbox, archive, transcripts, ledger, errlog, dlArchive, env, fatal, start, pc, urlq,
          queue, audio, file_hash, txt_path, working_audio, created_temp,
          done_hashes, ok, skipped, failed, status, runs, faults, calls, yielded,
          counted>>

disk == <<inbox, archive, transcripts, ledger, errlog, dlArchive>>
locals == <<queue, audio, file_hash, txt_path, working_audio, created_temp,
            done_hashes, ok, skipped, failed>>

Envs == [move_audio : BOOLEAN, move_skipped : BOOLEAN, urls : SUBSET Urls]

Init ==
  /\ \E S \in SUBSET UserNames : inbox \in [S -> UserFiles]
  /\ archive = EmptyDir
  /\ transcripts = EmptyDir
  /\ ledger = <<>>
  /\ errlog = <<>>
  /\ dlArchive = {}
  /\ env \in Envs
  /\ fatal = ""
  /\ start = [inbox |-> inbox, archive |-> EmptyDir, transcripts |-> EmptyDir,
              ledger |-> <<>>, errlog |-> <<>>]
  /\ pc = "idle"
  /\ urlq = <<>>
  /\ queue = <<>>
  /\ audio = <<>>
  /\ file_hash = 0
  /\ txt_path = <<>>
  /\ working_audio = <<>>
  /\ created_temp = FALSE
  /\ done_hashes = {}
  /\ ok = 0 /\ skipped = 0 /\ failed = 0
  /\ status = 0
  /\ runs = 0
  /\ faults = 0
  /\ calls = 0
  /\ yielded = 0
  /\ counted = {}

\* read_api_key over the sanitized OPENAI_API_KEY and Keychain entry: the
\* key, or "" when RuntimeError is raised
read_api_key(env_key, keychain_key) ==
  IF env_key # "" THEN env_key ELSE keychain_key

\* load_urls: the non-comment lines of video_urls.txt
load_urls(urls) == SortedSeq({<<u>> : u \in urls})

max_bytes == MAX_UPLOAD_BYTES_DEFAULT

OverLimitInclusive(size, limit) == size >= limit

\* lines 190 and 325: st_size > max_bytes
OverLimit(size, limit) == size > limit

CanFail == faults < MaxFaults

\* an uncaught exception leaves main(): the interpreter exits with status 1
Raise(what) ==
  /\ pc' = "exited"
  /\ status' = 1
  /\ fatal' = what

\* main, lines 254-271
Main ==
  /\ pc \in {"idle", "exited"}
  /\ runs < MaxRuns
  /\ runs' = runs + 1
  /\ calls' = 0
  /\ yielded' = 0
  /\ ok' = 0 /\ skipped' = 0 /\ failed' = 0
  /\ queue' = <<>> /\ audio' = <<>> /\ file_hash' = 0 /\ txt_path' = <<>>
  /\ working_audio' = <<>> /\ created_temp' = FALSE /\ done_hashes' = {}
  /\ \E inbox_str \in {"", "inbox"} :
       IF inbox_str = ""
         THEN Raise("no_inbox") /\ urlq' = <<>>
         ELSE /\ pc' = "download"
              /\ urlq' = load_urls(env.urls)
              /\ status' = status
              /\ fatal' = ""
  /\ start' = [inbox |-> inbox, archive |-> archive, transcripts |-> transcripts,
               ledger |-> ledger, errlog |-> errlog]
  /\ UNCHANGED <<disk, env, faults, counted>>

\* download_youtube_audio / ydl.download(urls), one url per step
Download ==
  /\ pc = "download"
  /\ urlq # <<>>
  /\ LET u == Head(urlq)[1] IN
       \/ /\ u \in dlArchive
          /\ urlq' = Tail(urlq)
          /\ UNCHANGED <<inbox, dlArchive, pc, status, fatal, faults>>
       \/ /\ u \notin dlArchive
          /\ inbox' = Put(inbox, DownloadName(u), DownloadFile(u))
          /\ dlArchive' = dlArchive \cup {u}
          /\ urlq' = Tail(urlq)
          /\ UNCHANGED <<pc, status, fatal, faults>>
       \/ /\ u \notin dlArchive
          /\ CanFail
          /\ faults' = faults + 1
          /\ Raise("download")
          /\ UNCHANGED <<inbox, dlArchive, urlq>>
  /\ UNCHANGED <<archive, transcripts, ledger, errlog, env, start, locals, runs, calls, yielded, counted>>

\* main, lines 275-296
Setup ==
  /\ pc = "download"
  /\ urlq = <<>>
  /\ \E env_key \in {"", "key"}, keychain_key \in {"", "key"} :
       IF read_api_key(env_key, keychain_key) = ""
         THEN Raise("no_key") /\ UNCHANGED <<done_hashes, queue>>
       ELSE IF ~Decodable(ledger)
         THEN Raise("ledger_decode") /\ UNCHANGED <<done_hashes, queue>>
       ELSE /\ done_hashes' = load_done_hashes(ledger)
            /\ queue' = Listing(inbox)
            /\ pc' = "loop"
            /\ status' = status
            /\ fatal' = fatal
  /\ UNCHANGED <<disk, env, start, urlq, audio, file_hash, txt_path, working_audio,
                 created_temp, ok, skipped, failed, runs, faults, calls, yielded, counted>>


\* ---------------------------------------------------------- the item loop
ErrLine(name, tag) == [file |-> name, tag |-> tag]

\* finally, lines 368-373: unlink of the substitute, failure swallowed
Finally(ib, unlinked) ==
  IF created_temp /\ unlinked /\ working_audio \in DOMAIN ib
    THEN Del(ib, working_audio) ELSE ib

\* except + finally, lines 362-373, entered from a step of the try block
\* that raised after leaving the inbox as ib
Except(ib) ==
  /\ failed' = failed + 1
  /\ errlog' = Append(errlog, ErrLine(audio, "transcribe_error"))
  /\ \E unlinked \in BOOLEAN :
       /\ unlinked \/ (created_temp /\ faults + 1 < MaxFaults)
       /\ inbox' = Finally(ib, unlinked)
       /\ faults' = faults + (IF unlinked THEN 1 ELSE 2)
  /\ pc' = "loop"

\* for audio in iter_audio_files(inbox) + sha256_file, lines 298-305
Hash ==
  /\ pc = "loop"
  /\ DropGone(queue, inbox) # <<>>
  /\ LET q == DropGone(queue, inbox) IN
       /\ audio' = Head(q)
       /\ queue' = Tail(q)
       /\ yielded' = yielded + 1
       /\ \/ /\ file_hash' = inbox[Head(q)].c
             /\ pc' = "check"
             /\ UNCHANGED <<failed, errlog, faults>>
          \/ /\ CanFail
             /\ faults' = faults + 1
             /\ failed' = failed + 1
             /\ errlog' = Append(errlog, ErrLine(Head(q), "hash_error"))
             /\ UNCHANGED <<file_hash, pc>>
  /\ UNCHANGED <<inbox, archive, transcripts, ledger, dlArchive, env, fatal, start, urlq, txt_path,
                 working_audio, created_temp, done_hashes, ok, skipped, status,
                 runs, calls, counted>>

SeenNever(h, done) == FALSE

\* line 307
Seen(h, done) == h \in done

\* lines 307-314
Skip ==
  /\ pc = "check"
  /\ Seen(file_hash, done_hashes)
  /\ skipped' = skipped + 1
  /\ \/ /\ env.move_skipped
        /\ inbox' = Del(inbox, audio)
        /\ archive' = Put(archive, audio, inbox[audio])
        /\ faults' = faults
     \/ /\ env.move_skipped
        /\ CanFail
        /\ faults' = faults + 1
        /\ UNCHANGED <<inbox, archive>>
     \/ /\ ~env.move_skipped
        /\ UNCHANGED <<inbox, archive, faults>>
  /\ pc' = "loop"
  /\ UNCHANGED <<transcripts, ledger, errlog, dlArchive, env, fatal, start, urlq, queue, audio,
                 file_hash, txt_path, working_audio, created_temp, done_hashes,
                 ok, failed, status, runs, calls, yielded, counted>>

\* lines 316-322: outside the try block
Name ==
  /\ pc = "check"
  /\ ~Seen(file_hash, done_hashes)
  /\ IF StampOk(inbox[audio])
       THEN /\ txt_path' = make_unique_txt_path(DOMAIN transcripts, BaseName(audio))
            /\ working_audio' = audio
            /\ created_temp' = FALSE
            /\ pc' = "gate"
            /\ status' = status
            /\ fatal' = fatal
       ELSE Raise("stamp") /\ UNCHANGED <<txt_path, working_audio, created_temp>>
  /\ UNCHANGED <<disk, env, start, urlq, queue, audio, file_hash, done_hashes, ok, skipped,
                 failed, runs, faults, calls, yielded, counted>>

\* maybe_compress_if_too_large, lines 189-214, after the unlink of a stale copy
Ffmpeg(ib, src, dst, outcome) ==
  IF outcome = "ok" THEN Put(ib, dst, [c |-> Transcoded(src.c), mt |-> GoodMtime])
  ELSE IF outcome = "partial" THEN Put(ib, dst, [c |-> PartialTranscode(src.c), mt |-> GoodMtime])
  ELSE ib

\* lines 325-327, size over the limit
Gate ==
  /\ pc = "gate"
  /\ OverLimit(SizeOf(inbox[audio].c), max_bytes)
  /\ LET compressed == WithSuffixCompressed(audio)
         cleared == IF compressed \in DOMAIN inbox THEN Del(inbox, compressed) ELSE inbox
     IN \/ /\ inbox' = Ffmpeg(cleared, inbox[audio], compressed, "ok")
           /\ working_audio' = compressed
           /\ created_temp' = (compressed # audio)
           /\ pc' = "transcribe"
           /\ UNCHANGED <<failed, errlog, faults>>
        \/ /\ CanFail
           /\ \E outcome \in {"partial", "none"} :
                Except(Ffmpeg(cleared, inbox[audio], compressed, outcome))
           /\ UNCHANGED <<working_audio, created_temp>>
  /\ UNCHANGED <<archive, transcripts, ledger, dlArchive, env, fatal, start, urlq, queue, audio,
                 file_hash, txt_path, done_hashes, ok, skipped, status, runs, calls, yielded, counted>>

\* transcribe_with_openai, lines 329-330
Transcribe ==
  /\ \/ pc = "transcribe"
     \/ pc = "gate" /\ ~OverLimit(SizeOf(inbox[audio].c), max_bytes)
  /\ calls' = calls + 1
  /\ \/ /\ pc' = "write"
        /\ UNCHANGED <<inbox, failed, errlog, faults>>
     \/ /\ CanFail
        /\ Except(inbox)
  /\ UNCHANGED <<archive, transcripts, ledger, dlArchive, env, fatal, start, urlq, queue, audio,
                 file_hash, txt_path, working_audio, created_temp, done_hashes, ok,
                 skipped, status, runs, yielded, counted>>

WriteTextSkipped ==
  /\ pc = "write"
  /\ pc' = "append"
  /\ UNCHANGED <<disk, env, fatal, start, urlq, locals, status, runs, faults, calls, yielded,
                 counted>>

\* txt_path.write_text, lines 332-341
WriteText ==
  /\ pc = "write"
  /\ \/ /\ transcripts' = Put(transcripts, txt_path, [sha |-> file_hash, full |-> TRUE])
        /\ pc' = "append"
        /\ UNCHANGED <<inbox, failed, errlog, faults>>
     \/ /\ CanFail
        /\ \/ transcripts' = Put(transcripts, txt_path, [sha |-> file_hash, full |-> FALSE])
           \/ transcripts' = transcripts
        /\ Except(inbox)
  /\ UNCHANGED <<archive, ledger, dlArchive, env, fatal, start, urlq, queue, audio, file_hash,
                 txt_path, working_audio, created_temp, done_hashes, ok, skipped,
                 status, runs, calls, yielded, counted>>

append_index_record_truncating(led, h, path, name, n, nl) ==
  IF n = 0 THEN <<>> ELSE <<Fragment(h, path, name, n, nl)>>

\* append_index_record, lines 157-159: n bytes reach the file, then the newline
append_index_record(led, h, path, name, n, nl) ==
  IF n = 0 THEN led ELSE Append(led, Fragment(h, path, name, n, nl))

AddSeenForgotten(done, h) == done

\* line 355
AddSeen(done, h) == done \cup {h}

\* lines 343-357
AppendIndex ==
  /\ pc = "append"
  /\ \/ /\ ledger' = append_index_record(ledger, file_hash, txt_path, audio, RecordBytes, TRUE)
        /\ done_hashes' = AddSeen(done_hashes, file_hash)
        /\ ok' = ok + 1
        /\ counted' = counted \cup {[name |-> audio, sha |-> file_hash]}
        /\ pc' = "move"
        /\ UNCHANGED <<inbox, failed, errlog, faults>>
     \/ /\ CanFail
        /\ \E n \in 0..RecordBytes :
             ledger' = append_index_record(ledger, file_hash, txt_path, audio, n, FALSE)
        /\ Except(inbox)
        /\ UNCHANGED <<done_hashes, ok, counted>>
  /\ UNCHANGED <<archive, transcripts, dlArchive, env, fatal, start, urlq, queue, audio, file_hash,
                 txt_path, working_audio, created_temp, skipped, status, runs, calls, yielded>>

\* lines 359-360 and the finally of the success path
Move ==
  /\ pc = "move"
  /\ \/ /\ env.move_audio
        /\ archive' = Put(archive, audio, inbox[audio])
        /\ \E unlinked \in BOOLEAN :
             /\ unlinked \/ (created_temp /\ CanFail)
             /\ inbox' = Finally(Del(inbox, audio), unlinked)
             /\ faults' = faults + (IF unlinked THEN 0 ELSE 1)
        /\ pc' = "loop"
        /\ UNCHANGED <<failed, errlog>>
     \/ /\ env.move_audio
        /\ CanFail
        /\ Except(inbox)
        /\ UNCHANGED archive
     \/ /\ ~env.move_audio
        /\ \E unlinked \in BOOLEAN :
             /\ unlinked \/ (created_temp /\ CanFail)
             /\ inbox' = Finally(inbox, unlinked)
             /\ faults' = faults + (IF unlinked THEN 0 ELSE 1)
        /\ pc' = "loop"
        /\ UNCHANGED <<archive, failed, errlog>>
  /\ UNCHANGED <<transcripts, ledger, dlArchive, env, fatal, start, urlq, queue, audio, file_hash,
                 txt_path, working_audio, created_temp, done_hashes, ok, skipped,
                 status, runs, calls, yielded, counted>>

ExitStatusZero(n_failed) == 0

\* line 376
ExitStatus(n_failed) == IF n_failed = 0 THEN 0 ELSE 1

\* lines 375-376
Finish ==
  /\ pc = "loop"
  /\ DropGone(queue, inbox) = <<>>
  /\ queue' = <<>>
  /\ status' = ExitStatus(failed)
  /\ pc' = "exited"
  /\ UNCHANGED <<disk, env, fatal, start, urlq, audio, file_hash, txt_path, working_audio,
                 created_temp, done_hashes, ok, skipped, failed, runs, faults,
                 calls, yielded, counted>>

\* the process is killed; inside append_index_record part of the line may
\* already have reached the file
Crash ==
  /\ pc \notin {"idle", "exited"}
  /\ CanFail
  /\ faults' = faults + 1
  /\ \E n \in 0..RecordBytes :
       /\ n > 0 => pc = "append"
       /\ ledger' = append_index_record(ledger, file_hash, txt_path, audio, n, FALSE)
  /\ pc' = "exited"
  /\ status' = 137
  /\ UNCHANGED <<inbox, archive, transcripts, errlog, dlArchive, env, fatal, start, urlq, locals,
                 runs, calls, yielded, counted>>

Next ==
  \/ Main \/ Download \/ Setup \/ Hash \/ Skip \/ Name \/ Gate \/ Transcribe
  \/ WriteText \/ AppendIndex \/ Move \/ Finish \/ Crash

Spec == Init /\ [][Next]_vars

\* ------------------------------------------- an inbox that is fed between runs
\* video_urls.txt with two lines
TwoUrls == {1, 2}

\* one recording at most when the first run starts; video_urls.txt is absent
\* or lists two urls
InitArrivals ==
  /\ \E S \in SUBSET {N_LICAO_M4A} : inbox \in [S -> UserFiles]
  /\ archive = EmptyDir
  /\ transcripts = EmptyDir
  /\ ledger = <<>>
  /\ errlog = <<>>
  /\ dlArchive = {}
  /\ env \in [move_audio : BOOLEAN, move_skipped : BOOLEAN, urls : {{}, TwoUrls}]
  /\ fatal = ""
  /\ start = [inbox |-> inbox, archive |-> EmptyDir, transcripts |-> EmptyDir,
              ledger |-> <<>>, errlog |-> <<>>]
  /\ pc = "idle"
  /\ urlq = <<>>
  /\ queue = <<>>
  /\ audio = <<>>
  /\ file_hash = 0
  /\ txt_path = <<>>
  /\ working_audio = <<>>
  /\ created_temp = FALSE
  /\ done_hashes = {}
  /\ ok = 0 /\ skipped = 0 /\ failed = 0
  /\ status = 0
  /\ runs = 0
  /\ faults = 0
  /\ calls = 0
  /\ yielded = 0
  /\ counted = {}

\* between two runs a new recording is saved into the inbox under a name
\* that is free there
Arrive ==
  /\ pc = "exited"
  /\ \E n \in UserNames \ (DOMAIN inbox), f \in UserFiles :
       inbox' = Put(inbox, n, f)
  /\ UNCHANGED <<archive, transcripts, ledger, errlog, dlArchive, env, fatal, start, pc, urlq,
                 locals, status, runs, faults, calls, yielded, counted>>

NextArrivals ==
  \/ Main \/ Download \/ Setup \/ Hash \/ Skip \/ Name \/ Gate \/ Transcribe
  \/ WriteText \/ AppendIndex \/ Move \/ Finish \/ Crash \/ Arrive

SpecArrivals == InitArrivals /\ [][NextArrivals]_vars


\* ------------------------------------------------------------- properties
IsPrefix(a, b) == Len(a) <= Len(b) /\ SubSeq(b, 1, Len(a)) = a

\* the writes to the ledger that put a whole record and its newline
Records(led, h) ==
  {i \in 1..Len(led) : led[i].sha = h /\ led[i].n = RecordBytes /\ led[i].nl}

AllHashes == {ledger[i].sha : i \in 1..Len(ledger)}

\* the run has left the loop through line 375
ReachedEnd == pc = "exited" /\ fatal = "" /\ status # 137 /\ runs > 0

\* C1: in every reachable state no two records of the ledger carry the same
\* sha256, i.e. no content has been successfully processed twice.
C1_UniqueRecords ==
  \A h \in AllHashes : Cardinality(Records(ledger, h)) <= 1

\* C2: in a second run over what the first run left, no transcription call
\* is made for content that the first run counted as a success.
C2_NoSecondTranscription ==
  ~(runs = 2 /\ pc = "write" /\ [name |-> audio, sha |-> file_hash] \in counted)

\* the run found candidates of pairwise distinct content, none of it seen
FreshDistinct ==
  /\ \A a, b \in DOMAIN start.inbox : a # b => start.inbox[a].c # start.inbox[b].c
  /\ start.ledger = <<>>
  /\ env.urls = {}

\* C3: over candidates of pairwise distinct, unseen content a failure of one
\* item never aborts the run: a run that got as far as the item loop and was
\* not killed ends with every candidate of its listing consumed.
C3_RunNotAborted ==
  (/\ pc = "exited" /\ status # 137
   /\ fatal \notin {"no_inbox", "download", "no_key", "ledger_decode"}
   /\ FreshDistinct /\ failed = 0)
    => DropGone(queue, inbox) = <<>>

\* the file of the last attempt, wherever the attempt left it
AttemptedFile == IF audio \in DOMAIN inbox THEN inbox[audio] ELSE archive[audio]

\* C4: once the attempt on an item over the upload limit has ended, its
\* "<stem>.compressed.m4a" does not exist in the inbox.
C4_NoSubstituteLeft ==
  (pc = "loop" /\ audio # <<>> /\ SizeOf(AttemptedFile.c) > max_bytes)
    => WithSuffixCompressed(audio) \notin DOMAIN inbox


\* C5: a run that reaches the end of the loop exits non-zero exactly when an
\* item failed in it (each failure leaves one line in the error log), and the
\* transcript and ledger record of every item counted as a success are there.
Committed(item) ==
  \E i \in Records(ledger, item.sha) :
    /\ ledger[i].txt \in DOMAIN transcripts
    /\ transcripts[ledger[i].txt] = [sha |-> item.sha, full |-> TRUE]
C5_ExitStatus ==
  ReachedEnd =>
    /\ (status # 0) <=> (Len(errlog) > Len(start.errlog))
    /\ status \in {0, 1}
    /\ \A item \in counted : Committed(item)
C5_Witness ==
  ReachedEnd /\ status = 1 /\ ok >= 1 /\ Len(errlog) = 1

\* C6: the transcript path chosen for base is base.txt when unused, else
\* "base i.txt" for the smallest unused i >= 2, and no step replaces the
\* content of a transcript that already exists.
FirstFree(existing, base, p) ==
  \/ p = base /\ base \notin existing
  \/ /\ base \in existing
     /\ \E i \in 2..9 :
          /\ p = base \o <<SP, Digit(i)>>
          /\ p \notin existing
          /\ \A j \in 2..(i - 1) : (base \o <<SP, Digit(j)>>) \in existing
C6_Step ==
  /\ (pc = "check" /\ pc' = "gate")
       => FirstFree(DOMAIN transcripts, BaseName(audio), txt_path')
  /\ \A p \in DOMAIN transcripts :
       p \in DOMAIN transcripts' /\ transcripts'[p] = transcripts[p]
  /\ \A p \in (DOMAIN transcripts') \ (DOMAIN transcripts) :
       p = txt_path /\ FirstFree(DOMAIN transcripts, BaseName(audio), p)
C6_NeverOverwrites == [][C6_Step]_vars
C6_Witness ==
  /\ pc = "append"
  /\ txt_path = BaseName(audio) \o <<SP, Digit(3)>>
  /\ {BaseName(audio), BaseName(audio) \o <<SP, Digit(2)>>, txt_path} \subseteq DOMAIN transcripts

\* C7: the step taken for a candidate whose hash is in the seen-set makes no
\* transcription call, creates no file in the inbox, leaves transcripts, ledger
\* and error log alone, adds one to skipped only, and either moves the file to
\* the archive (when enabled) or, the move failing, leaves it where it was.
C7_Step ==
  (pc = "check" /\ file_hash \in done_hashes /\ pc' # "exited") =>
    /\ pc' = "loop"
    /\ calls' = calls
    /\ transcripts' = transcripts /\ ledger' = ledger /\ errlog' = errlog
    /\ skipped' = skipped + 1 /\ ok' = ok /\ failed' = failed
    /\ (DOMAIN inbox') \subseteq (DOMAIN inbox)
    /\ \/ inbox' = inbox /\ archive' = archive
       \/ /\ env.move_skipped
          /\ inbox' = Del(inbox, audio)
          /\ archive' = Put(archive, audio, inbox[audio])
    /\ (~env.move_skipped) => inbox' = inbox
C7_SkipFrame == [][C7_Step]_vars
C7_Witness ==
  /\ pc = "exited" /\ ReachedEnd /\ status = 0
  /\ env.move_skipped /\ skipped = 1 /\ calls = 0 /\ faults = 1
  /\ audio \in DOMAIN inbox

\* C8: every step leaves the ledger as it was or longer by what it appended.
C8_AppendOnly == [][IsPrefix(ledger, ledger')]_vars
C8_Witness ==
  Len(ledger) >= 2 /\ runs = 2 /\ Len(start.ledger) = 1

\* C9: the ledger can always be loaded: no run ends in load_done_hashes
\* raising, and a run that has loaded it has in its seen-set the hash of
\* every record whose append had completed.
C9_LoadSurvives ==
  /\ fatal # "ledger_decode"
  /\ pc \in {"loop", "check", "gate", "transcribe", "write", "append", "move"}
       => \A i \in 1..Len(start.ledger) :
            (start.ledger[i].n = RecordBytes /\ start.ledger[i].nl)
              => start.ledger[i].sha \in done_hashes

\* C10: a run that ends for want of an inbox root or of a credential has
\* changed nothing in the inbox, the ledger, the transcripts or the error log.
C10_FatalBeforeWork ==
  (pc = "exited" /\ fatal \in {"no_inbox", "no_key"}) =>
    /\ inbox = start.inbox
    /\ ledger = start.ledger
    /\ transcripts = start.transcripts
    /\ errlog = start.errlog

\* C11: a failed fetch of one url is an error of that url only: when a run
\* has ended after a fetch failed in it, every other url of video_urls.txt has
\* been fetched and the loop has taken the candidates of the inbox.
C11_FetchFailureIsolated ==
  (pc = "exited" /\ fatal = "download") =>
    /\ \A u \in env.urls : u \in dlArchive \/ u = Head(urlq)[1]
    /\ Listing(inbox) # <<>> => yielded > 0

\* the complete records the current run has appended for hash h
RecordedThisRun(h) == {i \in Records(ledger, h) : i > Len(start.ledger)}

\* C12: on the success path the transcript is written first, then the
\* record is appended, then the hash joins the seen-set, and only then is the
\* source moved: every record of the ledger names a transcript that exists,
\* and a file is moved to the archive by the success path only when its hash
\* is in the ledger.
C12_Step ==
  /\ ledger' # ledger =>
       /\ pc = "append"
       /\ txt_path \in DOMAIN transcripts
       /\ transcripts[txt_path] = [sha |-> file_hash, full |-> TRUE]
       /\ file_hash \notin done_hashes
  /\ (pc = "append" /\ done_hashes' # done_hashes) =>
       /\ done_hashes' = done_hashes \cup {file_hash}
       /\ Records(ledger', file_hash) # {}
  /\ (pc = "move" /\ archive' # archive) =>
       /\ Records(ledger, file_hash) # {}
       /\ file_hash \in done_hashes
       /\ archive' = Put(archive, audio, inbox[audio])
  /\ \A i \in 1..Len(ledger') :
       ledger'[i].n = RecordBytes =>
         /\ ledger'[i].txt \in DOMAIN transcripts'
         /\ transcripts'[ledger'[i].txt] = [sha |-> ledger'[i].sha, full |-> TRUE]
C12_SuccessOrder == [][C12_Step]_vars
C12_Witness ==
  /\ pc = "loop" /\ ok = 1 /\ env.move_audio
  /\ audio \in DOMAIN archive /\ audio \notin DOMAIN inbox
  /\ RecordedThisRun(file_hash) # {}
  /\ txt_path \in DOMAIN transcripts

\* the attempt on the loop variable has just ended in the except block
FailedLast ==
  /\ pc = "loop"
  /\ Len(errlog) > Len(start.errlog)
  /\ errlog[Len(errlog)] = ErrLine(audio, "transcribe_error")

\* C13: an item counted as failed leaves no trace of success: the attempt
\* has added one line to the error log, no record to the ledger and no
\* transcript file, and the source is still in the inbox.
C13_FailureLeavesNoTrace ==
  FailedLast =>
    /\ audio \in DOMAIN inbox
    /\ Cardinality({i \in (Len(start.errlog) + 1)..Len(errlog) : errlog[i].file = audio}) = 1
    /\ RecordedThisRun(file_hash) = {}
    /\ \A p \in (DOMAIN transcripts) \ (DOMAIN start.transcripts) :
         transcripts[p].sha # file_hash

\* C14: when an earlier candidate of the run with the same bytes has been
\* transcribed with success, the later one is skipped in that run: no
\* transcription call is made for it and no second record is appended.
C14_Step ==
  /\ (pc = "check" /\ RecordedThisRun(file_hash) # {} /\ pc' # "exited") =>
       /\ pc' = "loop"
       /\ skipped' = skipped + 1
       /\ calls' = calls
       /\ ledger' = ledger
  /\ (pc \in {"gate", "transcribe", "write", "append"}) => RecordedThisRun(file_hash) = {}
C14_DuplicateSkipped == [][C14_Step]_vars
C14_Witness ==
  /\ runs = 1 /\ pc = "loop" /\ yielded = 2
  /\ ok = 1 /\ skipped = 1 /\ failed = 0 /\ calls = 1
  /\ audio = N_LICAO_M4A
  /\ Cardinality(RecordedThisRun(file_hash)) = 1

\* C15: the transcription call is handed the original exactly when its
\* size is at most max_bytes (a file of exactly max_bytes passes); then no
\* transcoder has run and the inbox and archive are as they were; over the
\* limit the call is handed the transcoded substitute.
C15_Step ==
  (calls' = calls + 1) =>
    LET size == SizeOf(inbox[audio].c) IN
      /\ (working_audio = audio) <=> (size <= max_bytes)
      /\ size <= max_bytes =>
           /\ pc = "gate" /\ ~created_temp
           /\ inbox' = inbox /\ archive' = archive
      /\ size > max_bytes =>
           /\ working_audio = WithSuffixCompressed(audio)
           /\ working_audio # audio
           /\ working_audio \in DOMAIN inbox
           /\ inbox[working_audio].c = Transcoded(inbox[audio].c)
C15_SizeGate == [][C15_Step]_vars
C15_Witness ==
  /\ pc = "write" /\ calls = 1
  /\ SizeOf(inbox[audio].c) = max_bytes
  /\ working_audio = audio

\* a file that ffmpeg wrote for the pipeline
PipelineMade(f) == f.c >= Transcoded(0)

\* C16: no audio the pipeline did not create is destroyed: a file that was
\* in the archive when the run started is still there with its content, and
\* a file that was in the inbox is there or in the archive with its content.
C16_NothingDestroyed ==
  (pc # "idle") =>
    /\ \A n \in DOMAIN start.archive :
         n \in DOMAIN archive /\ archive[n].c = start.archive[n].c
    /\ \A n \in DOMAIN start.inbox :
         ~PipelineMade(start.inbox[n]) =>
           \/ n \in DOMAIN inbox /\ inbox[n].c = start.inbox[n].c
           \/ n \in DOMAIN archive /\ archive[n].c = start.inbox[n].c

\* C17: at the end of a run that completes the loop the three tallies add
\* up to the number of candidates the loop was handed.
C17_TallyPartition ==
  ReachedEnd => ok + skipped + failed = yielded

\* C18: whatever the ledger held before, once append_index_record has
\* completed the ledger can be loaded and the loaded set holds the record's
\* sha256.
C18_AppendThenLoad ==
  (pc = "move") => Decodable(ledger) /\ file_hash \in load_done_hashes(ledger)

====
